---- MODULE Spec2Model ----
(***************************************************************************)
(* Vulnerability-aggregation commands of the conan extensions:             *)
(*   audit/cmd_catalog.py     catalog, get_proxy_vulnerabilities,          *)
(*                            get_custom_vulnerabilities, text renderer    *)
(*   audit/cmd_osv.py         osv (graph-wide loop), get_vulnerabilities,  *)
(*                            get_osv_payload, get_commit_hash, renderer   *)
(*   security/cmd_catalog.py  catalog (graph-wide loop), text renderer     *)
(*   security/cmd_osv.py      osv (single package), get_osv_payload,       *)
(*                            get_commit_hash, renderer                    *)
(*   security/cmd_audit.py    get_osv_payload, get_commit_hash             *)
(*   compliance/cmd_collect_licenses.py  collect_licenses                  *)
(* One run of one entry point is one behaviour: Init draws the entry point *)
(* (cmd), its arguments and its dependency list; every HTTP answer and     *)
(* every file read is an input drawn when the step that consumes it runs.  *)
(***************************************************************************)
EXTENDS Integers, Sequences, FiniteSets, TLC

VARIABLES
    cmd,          \* entry point of this run
    deps,         \* the list the aggregation loop iterates (refs / nodes)
    token,        \* a catalog token was supplied (-t/--token)
    gh_token,     \* GH_TOKEN is set in the environment
    catalog_url,  \* a catalog URL is configured (flag or CATALOG_URL)
    args,         \* path given, --transitive, graph error, --use-commit
    refs,         \* audit catalog: the reference list it selected
    pc,           \* "start" | "call" | "loop" | "returned" | "raised" | "rendered"
    exc,          \* the exception that ended the run, "None" if none
    i,            \* 1-based index of the next list entry to process
    sent,         \* every HTTP request sent so far, with the answer it got
    result,       \* the value under construction / returned
    advanced,     \* number of progress.update(..., advance=1) calls
    console,      \* notices printed to the stderr console, in order
    out,          \* what the text formatter printed (after "rendered")
    reads,        \* every conandata.yml read made to build a payload, in order
    fs            \* collect-licenses: platform, package folders, destination directory

vars == <<cmd, deps, token, gh_token, catalog_url, args, refs, pc, exc, i, sent, result, advanced, console, out, reads, fs>>

----------------------------------------------------------------------------
(* Bounds *)

MaxRefs == 5      \* longest reference list handed to get_proxy_vulnerabilities
MaxDeps == 3      \* longest node list of the catalog graph loop
MaxOsvDeps == 2   \* longest transitive_deps list of the osv graph loop

----------------------------------------------------------------------------
(* Generic helpers *)

SeqsUpTo(S, n) == UNION {[1..k -> S] : k \in 0..n}

Range(s) == {s[k] : k \in 1..Len(s)}

NoArgs == [path |-> FALSE, transitive |-> FALSE, graph_error |-> FALSE, use_commit |-> "None"]

NoOut == [table |-> <<>>, summary |-> <<>>, total |-> 0, printed |-> <<>>]

(* A text file: whether it exists and its lines.                           *)
NoFile == [exists |-> FALSE, lines |-> <<>>]
File(lines) == [exists |-> TRUE, lines |-> lines]

(* A directory of collected licenses: whether it exists, the license       *)
(* files below it and its licenses.txt.                                    *)
NoDir == [exists |-> FALSE, files |-> {}, manifest |-> NoFile]

(* The file system of a command that does not touch it.                    *)
NoFs == [platform |-> "none", pkgs |-> <<>>, dest |-> NoDir, sibling |-> NoFile]

(* One HTTP request as the run saw it: the endpoint, the payload, the      *)
(* answer it got and the list position it was sent for.                    *)
Request(to, payload, answer, pos) ==
    [to |-> to, payload |-> payload, answer |-> answer, pos |-> pos]

NoExc == "None"
NoHash == "None"
NoTag == <<>>
NoDep == [name |-> "", version |-> <<>>]

(* A request body: what kind of key it carries and the key.                *)
Payload(mode, dep, commit, tag) == [mode |-> mode, dep |-> dep, commit |-> commit, tag |-> tag]

(* Findings as the source returned them: lists of finding identifiers.     *)
FindingLists == {<<>>, <<2, 1>>}

----------------------------------------------------------------------------
(* Dependencies of a resolved graph: name and version of the node's ref.   *)
(* A version is the sequence of its characters, so that the marker test    *)
(* is the substring test the code makes.                                   *)

Deps ==
    { [name |-> "zlib",    version |-> <<"1", ".", "3">>],
      [name |-> "openssl", version |-> <<"c", "c", "i", ".", "2">>] }

Marker == <<"c", "c", "i">>

(* "cci" in str(version)                                                   *)
HasMarker(v) ==
    \E k \in 1..(Len(v) - Len(Marker) + 1) : SubSeq(v, k, k + Len(Marker) - 1) = Marker

(* f"{name}/{version}": the reference text sent to the catalog proxy.      *)
RefString(d) == <<d.name, "/">> \o d.version

----------------------------------------------------------------------------
(* audit/cmd_catalog.py: get_proxy_vulnerabilities(refs, token)            *)

ProxyRefs == {RefString(d) : d \in Deps}

(* Answers of the proxy endpoint to one POST.                              *)
(*   ok       200 with a JSON body carrying "data" for the reference       *)
(*   badbody  200 whose body is not JSON or has no "data" member           *)
(*   r429     429 without a Retry-After header                             *)
(*   r429ra   429 with a Retry-After header                                *)
(*   other    any other status (4xx/5xx)                                   *)
(*   neterr   requests.post raises                                         *)
ProxyAnswers ==
    [kind : {"ok"}, vulns : FindingLists]
        \cup [kind : {"badbody", "r429", "r429ra", "other", "neterr"}, vulns : {<<>>}]

Is429(a) == a.kind \in {"r429", "r429ra"}

(* dict.update with a one-entry dict: an existing key keeps its position   *)
(* and takes the new value, a new key is appended.                         *)
DictUpdate(d, key, val) ==
    IF \E k \in 1..Len(d) : d[k].key = key
    THEN [k \in 1..Len(d) |-> IF d[k].key = key THEN [key |-> key, vulns |-> val] ELSE d[k]]
    ELSE Append(d, [key |-> key, vulns |-> val])

(* Mutation: the 429 branch never leaves the loop.                         *)
ProxyBreaks_never(a, tok) == FALSE

(* Mutation: the 429 branch leaves the loop whether or not a token was     *)
(* supplied.                                                               *)
ProxyBreaks_always(a, tok) == Is429(a)

(* The 429 branch breaks out of the loop only when no token was supplied.  *)
ProxyBreaks(a, tok) == Is429(a) /\ ~tok

(* Mutation: every answered request leaves an entry in result["data"].     *)
ProxyStores_any(a) == TRUE

(* Only a 200 answer is merged into result["data"].                        *)
ProxyStores(a) == a.kind = "ok"

ProxyNotices(a, tok) ==
    IF Is429(a)
    THEN <<"rate_limit">>
         \o (IF a.kind = "r429ra" THEN <<"retry_after">> ELSE <<>>)
         \o (IF ~tok THEN <<"provide_token">> ELSE <<>>)
    ELSE <<>>

(* One iteration of the for loop: one POST for refs[i] and its handling.   *)
get_proxy_vulnerabilities(a) ==
    /\ cmd = "proxy"
    /\ pc = "loop"
    /\ i <= Len(refs)
    /\ sent' = Append(sent, Request("proxy", Payload("reference", refs[i], NoHash, NoTag), a, i))
    /\ console' = console \o ProxyNotices(a, token)
    /\ IF a.kind \in {"neterr", "badbody"}
       THEN /\ pc' = "raised"
            /\ exc' = IF a.kind = "neterr" THEN "ConnectionError" ELSE "JSONDecodeError"
            /\ UNCHANGED <<result, advanced, i>>
       ELSE /\ exc' = exc
            /\ result' = IF ProxyStores(a) THEN DictUpdate(result, refs[i], a.vulns) ELSE result
            /\ IF ProxyBreaks(a, token)
               THEN /\ pc' = "returned"
                    /\ UNCHANGED <<advanced, i>>
               ELSE /\ advanced' = advanced + 1
                    /\ i' = i + 1
                    /\ pc' = "loop"
    /\ UNCHANGED <<cmd, deps, token, gh_token, catalog_url, args, refs, out, reads, fs>>

(* The loop is exhausted: return result.                                   *)
ProxyReturn ==
    /\ cmd = "proxy"
    /\ pc = "loop"
    /\ i > Len(refs)
    /\ pc' = "returned"
    /\ UNCHANGED <<cmd, deps, token, gh_token, catalog_url, args, refs, exc, i, sent, result, advanced, console, out, reads, fs>>

(* Rows of the rich table.  kind: "section" (table.add_section),          *)
(* "header" (the package row, n = the count shown), "finding" (n = the     *)
(* finding identifier), "clean" (a "no vulnerabilities found" row).        *)
Row(kind, ref, n) == [kind |-> kind, ref |-> ref, n |-> n]

FindingRows(ref, ids) == [k \in 1..Len(ids) |-> Row("finding", ref, ids[k])]

SortIds(ids) == SortSeq(ids, LAMBDA x, y : x < y)

RECURSIVE SumFindings(_)
SumFindings(l) == IF l = <<>> THEN 0 ELSE Len(Head(l).vulns) + SumFindings(Tail(l))

RECURSIVE ProxyTable(_)
ProxyTable(d) ==
    IF d = <<>> THEN <<>>
    ELSE LET e == Head(d)
         IN  (IF e.vulns # <<>>
              THEN <<Row("section", e.key, 0), Row("header", e.key, Len(e.vulns))>>
                       \o FindingRows(e.key, SortIds(e.vulns))
              ELSE <<>>)
             \o ProxyTable(Tail(d))

ProxyClean(e) == e.vulns = <<>>

(* audit/cmd_catalog.py display_vulnerabilities(list_of_data_json): top is *)
(* the returned dict, has_data says it has a usable "data" member.         *)
display_vulnerabilities_audit_catalog(top) ==
    IF ~top.has_data
    THEN [table |-> <<>>, summary |-> <<>>, total |-> 0, printed |-> <<"no_vulnerabilities">>]
    ELSE LET total_vulnerabilities == SumFindings(top.data)
             clean == SelectSeq(top.data, ProxyClean)
             packages_without_vulns == [k \in 1..Len(clean) |-> clean[k].key]
         IN  [table   |-> ProxyTable(top.data),
              summary |-> packages_without_vulns,
              total   |-> total_vulnerabilities,
              printed |-> (IF total_vulnerabilities > 0 THEN <<"table">> ELSE <<>>)
                          \o <<"total">>
                          \o (IF packages_without_vulns # <<>> THEN <<"summary">> ELSE <<>>)
                          \o <<"provider">>]

(* The text formatter applied to the returned {"data": ...}.               *)
ProxyRender ==
    /\ cmd \in {"proxy", "custom"}
    /\ pc = "returned"
    /\ out' = display_vulnerabilities_audit_catalog([has_data |-> TRUE, data |-> result])
    /\ pc' = "rendered"
    /\ UNCHANGED <<cmd, deps, token, gh_token, catalog_url, args, refs, exc, i, sent, result, advanced, console, reads, fs>>

InitProxy ==
    /\ cmd = "proxy"
    /\ deps = <<>>
    /\ token \in BOOLEAN
    /\ gh_token = FALSE
    /\ catalog_url = FALSE
    /\ args = NoArgs
    /\ refs \in SeqsUpTo(ProxyRefs, MaxRefs)
    /\ pc = "loop"
    /\ exc = NoExc
    /\ i = 1
    /\ sent = <<>>
    /\ result = <<>>
    /\ advanced = 0
    /\ console = <<>>
    /\ out = NoOut
    /\ reads = <<>>
    /\ fs = NoFs

NextProxy ==
    \/ \E a \in ProxyAnswers : get_proxy_vulnerabilities(a)
    \/ ProxyReturn
    \/ ProxyRender

SpecProxy == InitProxy /\ [][NextProxy]_vars

----------------------------------------------------------------------------
(* Properties of get_proxy_vulnerabilities *)

Keys(d) == {d[k].key : k \in 1..Len(d)}

(* Positions of the requests answered 429 in a run without token.          *)
RateLimitedAt == {k \in 1..Len(sent) : sent[k].to = "proxy" /\ Is429(sent[k].answer)}

(* C2: in get_proxy_vulnerabilities without a token, a request answered    *)
(* with 429 is the last request of the run, whatever its position: no      *)
(* request follows it.                                                     *)
C2_NoRequestAfter429 ==
    (cmd = "proxy" /\ ~token) => \A k \in RateLimitedAt : k = Len(sent)

C2_Witness ==
    /\ cmd = "proxy" /\ ~token /\ pc = "returned"
    /\ Len(refs) >= 3
    /\ RateLimitedAt = {2}
    /\ Len(sent) = 2

(* Positions before k whose request was answered 200 with data.            *)
CompletedBefore(k) == {j \in 1..(k - 1) : sent[j].answer.kind = "ok"}

(* C3: when a token-less batch is aborted by a 429 on the k-th reference,  *)
(* the returned data holds one entry per reference completed before k,     *)
(* carrying the data of its latest completed answer, and nothing else.     *)
C3_PartialResult ==
    (cmd = "proxy" /\ ~token /\ pc = "returned") =>
        \A k \in RateLimitedAt :
            /\ Keys(result) = {refs[j] : j \in CompletedBefore(k)}
            /\ Len(result) = Cardinality(Keys(result))
            /\ \A n \in 1..Len(result) :
                   \E j \in CompletedBefore(k) :
                       /\ refs[j] = result[n].key
                       /\ sent[j].answer.vulns = result[n].vulns
                       /\ \A m \in CompletedBefore(k) : refs[m] = refs[j] => m <= j

C3_Witness ==
    /\ cmd = "proxy" /\ ~token /\ pc = "returned"
    /\ Len(refs) = MaxRefs
    /\ RateLimitedAt = {2}
    /\ sent[1].answer.kind = "ok"
    /\ Len(result) = 1

----------------------------------------------------------------------------
(* audit/cmd_osv.py: extract_tag, get_commit_hash, get_osv_payload,        *)
(* get_vulnerabilities and the loop of the osv command.                    *)

(* Answers of https://api.osv.dev/v1/query to one POST.                    *)
(*   vulns    a JSON object with a "vulns" list (possibly empty)           *)
(*   empty    the empty JSON object {}, OSV's answer for "nothing known"   *)
(*   errbody  a non-2xx status with a JSON error object as body            *)
(*   nonjson  a body that is not JSON: response.json() raises              *)
(*   neterr   requests.post raises                                         *)
OsvAnswers ==
    [kind : {"vulns"}, vulns : FindingLists]
        \cup [kind : {"empty", "errbody", "nonjson", "neterr"}, vulns : {<<>>}]

OsvRaises(a) == a.kind \in {"nonjson", "neterr"}

(* Truth value of response.json(): a non-empty JSON object is truthy.      *)
OsvTruthy(a) == a.kind \in {"vulns", "errbody"}

PlainAnswer(kind) == [kind |-> kind, vulns |-> <<>>]

(* Download URLs of a conandata.yml entry: whether the text contains       *)
(* "github", which of the three tag shapes it has, and the embedded tag.   *)
Urls ==
    { [github |-> TRUE,  shape |-> "download", tag |-> <<"v", "2", ".", "1", ".", "0">>],
      [github |-> TRUE,  shape |-> "archive",  tag |-> <<"1", ".", "3", ".", "0">>],
      [github |-> TRUE,  shape |-> "tags",     tag |-> <<"r", "e", "l", "-", "2">>],
      [github |-> TRUE,  shape |-> "none",     tag |-> NoTag],
      [github |-> FALSE, shape |-> "download", tag |-> <<"v", "2", ".", "1", ".", "0">>] }

NoUrl == [github |-> FALSE, shape |-> "none", tag |-> NoTag]

(* What reading conandata.yml for the version gives.                       *)
(*   missing  the file cannot be opened                                    *)
(*   noentry  no "sources" entry for the version                           *)
(*   nourl    an entry without "url"                                       *)
(*   url      an entry with a url                                          *)
Manifests ==
    [file : {"missing", "noentry", "nourl"}, url : {NoUrl}]
        \cup [file : {"url"}, url : Urls]

(* re.search over the three shapes; the match's group is the tag.          *)
RegexTag(url) == IF url.shape \in {"download", "archive", "tags"} THEN url.tag ELSE NoTag

(* audit/cmd_osv.py extract_tag: only URLs containing "github" are looked  *)
(* at; otherwise the function falls off its end and returns None.          *)
extract_tag(url) == IF url.github THEN RegexTag(url) ELSE NoTag

(* Answers of the GitHub API.                                              *)
(*   tag lookup:    ok (JSON with object.url) | fail (anything else)       *)
(*   object lookup: tagobj (JSON with object.sha and sha) | commit (JSON   *)
(*                  with sha only) | nosha (JSON with neither) | fail      *)
TagAnswers == {"ok", "fail"}
ObjAnswers == {"tagobj", "commit", "nosha", "fail"}

GithubRequest(to, d, tag, kind) ==
    Request(to, Payload(to, d, NoHash, tag), PlainAnswer(kind), 0)

(* The three GETs of get_commit_hash: the tag reference, then commit_url   *)
(* twice (the default argument of .get("sha", ...) is evaluated eagerly).  *)
(* exc: the exception that left the body; hash: the expression's value.    *)
CommitLookup(d, tag, ta, o1, o2) ==
    LET t  == GithubRequest("github_tag", d, tag, ta)
        g1 == GithubRequest("github_obj", d, tag, o1)
        g2 == GithubRequest("github_obj", d, tag, o2)
    IN  IF ta = "fail" THEN [reqs |-> <<t>>, exc |-> "KeyError", hash |-> NoHash]
        ELSE IF o1 = "fail" THEN [reqs |-> <<t, g1>>, exc |-> "KeyError", hash |-> NoHash]
        ELSE IF o2 = "fail" THEN [reqs |-> <<t, g1, g2>>, exc |-> "KeyError", hash |-> NoHash]
        ELSE [reqs |-> <<t, g1, g2>>, exc |-> NoExc,
              hash |-> IF o1 = "tagobj" THEN "sha_object"
                       ELSE IF o2 \in {"tagobj", "commit"} THEN "sha_top"
                       ELSE NoHash]

(* audit/cmd_osv.py get_commit_hash: every exception is swallowed and the  *)
(* function returns None.                                                  *)
get_commit_hash(d, tag, ta, o1, o2) ==
    LET l == CommitLookup(d, tag, ta, o1, o2)
    IN  [reqs |-> l.reqs, exc |-> NoExc, hash |-> IF l.exc # NoExc THEN NoHash ELSE l.hash]

NoPayload == Payload("none", NoDep, NoHash, NoTag)
RegistryPayload(d) == Payload("registry", d, NoHash, NoTag)
CommitPayload(h) == Payload("commit", NoDep, h, NoTag)

(* One read of conandata.yml by get_osv_payload: what the file held for    *)
(* the version and the tag the function went on with (none if it stopped). *)
ManifestRead(m, tag) == [pos |-> 0, manifest |-> m, tag |-> tag]

(* open() raises FileNotFoundError, a failing subscript KeyError.          *)
ManifestError(m) == IF m.file = "missing" THEN "FileNotFoundError" ELSE "KeyError"

(* requests.post raises ConnectionError, response.json() JSONDecodeError.  *)
OsvError(a) == IF a.kind = "neterr" THEN "ConnectionError" ELSE "JSONDecodeError"

(* open() raises on a missing file; the KeyError handler repeats the       *)
(* failing lookup, so a missing entry raises out of get_osv_payload.       *)
ManifestRaises(m) == m.file \in {"missing", "noentry"}

(* audit/cmd_osv.py get_osv_payload(conan_api, ref, by_commit)             *)
get_osv_payload(d, by_commit, m, ta, o1, o2) ==
    LET rd == <<ManifestRead(m, IF m.file = "url" THEN extract_tag(m.url) ELSE NoTag)>>
    IN  IF ~by_commit
        THEN [reqs |-> <<>>, exc |-> NoExc, payload |-> RegistryPayload(d), reads |-> <<>>]
        ELSE IF ManifestRaises(m)
        THEN [reqs |-> <<>>, exc |-> ManifestError(m), payload |-> NoPayload, reads |-> rd]
        ELSE IF m.file = "nourl" \/ extract_tag(m.url) = NoTag
        THEN [reqs |-> <<>>, exc |-> NoExc, payload |-> NoPayload, reads |-> rd]
        ELSE LET c == get_commit_hash(d, extract_tag(m.url), ta, o1, o2)
             IN  [reqs |-> c.reqs, exc |-> NoExc,
                  payload |-> IF c.hash # NoHash THEN CommitPayload(c.hash) ELSE NoPayload,
                  reads |-> rd]

(* Everything get_osv_payload(by_commit=True) can do for a dependency.     *)
CommitPayloads ==
    [d \in Deps |->
        {get_osv_payload(d, TRUE, m, ta, o1, o2) :
            m \in Manifests, ta \in TagAnswers, o1 \in ObjAnswers, o2 \in ObjAnswers}]

OsvRequest(payload, a) == Request("osv", payload, a, 0)

EmptyBody == PlainAnswer("empty")

(* The registry answer is returned only when it is truthy; an empty        *)
(* answer falls through to the query by commit.                            *)
RegistryReturns(a) == OsvTruthy(a)

(* The part of get_vulnerabilities after the registry query: payload by    *)
(* commit, the query by commit when there is a payload, {} otherwise.      *)
ByCommit(before, p, r2) ==
    IF p.exc # NoExc
    THEN [reqs |-> before \o p.reqs, exc |-> p.exc, body |-> EmptyBody, reads |-> p.reads]
    ELSE IF p.payload = NoPayload
    THEN [reqs |-> before \o p.reqs, exc |-> NoExc, body |-> EmptyBody, reads |-> p.reads]
    ELSE LET all == before \o p.reqs \o <<OsvRequest(p.payload, r2)>>
         IN  IF OsvRaises(r2)
             THEN [reqs |-> all, exc |-> OsvError(r2), body |-> EmptyBody, reads |-> p.reads]
             ELSE IF OsvTruthy(r2)
             THEN [reqs |-> all, exc |-> NoExc, body |-> r2, reads |-> p.reads]
             ELSE [reqs |-> all, exc |-> NoExc, body |-> EmptyBody, reads |-> p.reads]

(* audit/cmd_osv.py get_vulnerabilities(conan_api, dep): r1 answers the    *)
(* registry query, p is what get_osv_payload(by_commit=True) does, r2      *)
(* answers the query by commit.                                            *)
get_vulnerabilities(d, r1, p, r2) ==
    IF ~HasMarker(d.version)
    THEN LET q == <<OsvRequest(get_osv_payload(d, FALSE, NoUrl, "fail", "fail", "fail").payload, r1)>>
         IN  IF OsvRaises(r1)
             THEN [reqs |-> q, exc |-> OsvError(r1), body |-> EmptyBody, reads |-> <<>>]
             ELSE IF RegistryReturns(r1)
             THEN [reqs |-> q, exc |-> NoExc, body |-> r1, reads |-> <<>>]
             ELSE ByCommit(q, p, r2)
    ELSE ByCommit(<<>>, p, r2)

(* Everything one call of get_vulnerabilities can do for a dependency.     *)
VulnOutcomes ==
    [d \in Deps |->
        {get_vulnerabilities(d, r1, p, r2) :
            r1 \in OsvAnswers, p \in CommitPayloads[d], r2 \in OsvAnswers}]

AtPos(reqs, pos) == [k \in 1..Len(reqs) |-> [reqs[k] EXCEPT !.pos = pos]]

(* A report of the osv command: the answer's JSON object plus "ref".       *)
OsvReport(d, body) == [ref |-> d, body |-> body.kind, vulns |-> body.vulns]

RECURSIVE OsvTable(_)
OsvTable(l) ==
    IF l = <<>> THEN <<>>
    ELSE LET r == Head(l)
         IN  (IF r.vulns # <<>>
              THEN <<Row("section", r.ref, 0), Row("header", r.ref, Len(r.vulns))>>
                       \o FindingRows(r.ref, r.vulns)
              ELSE <<>>)
             \o OsvTable(Tail(l))

RefsOf(l) == [k \in 1..Len(l) |-> l[k].ref]

(* data_json.get("vulns", []) is empty: the report goes to the summary.    *)
OsvClean(r) == r.vulns = <<>>

(* audit/cmd_osv.py display_vulnerabilities(list_of_data_json)             *)
display_vulnerabilities_osv(l) ==
    LET num_vulns == SumFindings(l)
        packages_without_vulns == RefsOf(SelectSeq(l, OsvClean))
    IN  [table   |-> OsvTable(l),
         summary |-> packages_without_vulns,
         total   |-> num_vulns,
         printed |-> (IF num_vulns > 0 THEN <<"table">> ELSE <<>>)
                     \o <<"total">>
                     \o (IF packages_without_vulns # <<>> THEN <<"summary">> ELSE <<>>)]

(* The GH_TOKEN check and the graph resolution that precede the loop.      *)
OsvStart ==
    /\ cmd = "osv"
    /\ pc = "start"
    /\ pc' = IF gh_token THEN "loop" ELSE "raised"
    /\ exc' = IF gh_token THEN exc ELSE "ConanException"
    /\ UNCHANGED <<cmd, deps, token, gh_token, catalog_url, args, refs, i, sent, result, advanced, console, out, reads, fs>>

(* One iteration of the loop over root.transitive_deps.                    *)
OsvIteration ==
    /\ cmd = "osv"
    /\ pc = "loop"
    /\ i <= Len(deps)
    /\ \E o \in VulnOutcomes[deps[i]] :
        /\ sent' = sent \o AtPos(o.reqs, i)
        /\ reads' = reads \o AtPos(o.reads, i)
        /\ exc' = o.exc
        /\ IF o.exc # NoExc
           THEN /\ pc' = "raised"
                /\ UNCHANGED <<result, advanced, i>>
           ELSE /\ result' = Append(result, OsvReport(deps[i], o.body))
                /\ advanced' = advanced + 1
                /\ i' = i + 1
                /\ pc' = "loop"
    /\ UNCHANGED <<cmd, deps, token, gh_token, catalog_url, args, refs, console, out, fs>>

OsvReturn ==
    /\ cmd = "osv"
    /\ pc = "loop"
    /\ i > Len(deps)
    /\ pc' = "returned"
    /\ UNCHANGED <<cmd, deps, token, gh_token, catalog_url, args, refs, exc, i, sent, result, advanced, console, out, reads, fs>>

(* The text formatter applied to the returned list.                        *)
OsvRender ==
    /\ cmd = "osv"
    /\ pc = "returned"
    /\ out' = display_vulnerabilities_osv(result)
    /\ pc' = "rendered"
    /\ UNCHANGED <<cmd, deps, token, gh_token, catalog_url, args, refs, exc, i, sent, result, advanced, console, reads, fs>>

InitOsv ==
    /\ cmd = "osv"
    /\ deps \in SeqsUpTo(Deps, MaxOsvDeps)
    /\ token = FALSE
    /\ gh_token \in BOOLEAN
    /\ catalog_url = FALSE
    /\ args = NoArgs
    /\ refs = <<>>
    /\ pc = "start"
    /\ exc = NoExc
    /\ i = 1
    /\ sent = <<>>
    /\ result = <<>>
    /\ advanced = 0
    /\ console = <<>>
    /\ out = NoOut
    /\ reads = <<>>
    /\ fs = NoFs

NextOsv ==
    \/ OsvStart
    \/ OsvIteration
    \/ OsvReturn
    \/ OsvRender

SpecOsv == InitOsv /\ [][NextOsv]_vars

----------------------------------------------------------------------------
(* security/cmd_catalog.py: the loop of the catalog command over           *)
(* graph.nodes[1:] and its text renderer.                                  *)

(* Answers of the GraphQL endpoint to one POST.                            *)
(*   ok        a JSON object with data.packageVersion for the package      *)
(*   nodata    a JSON object without "data" (an error object)              *)
(*   datanull  a JSON object whose "data" is null (GraphQL errors)         *)
(*   nonjson   a body that is not JSON: response.json() raises             *)
(*   neterr    requests.post raises                                        *)
CatalogAnswers ==
    [kind : {"ok"}, vulns : FindingLists]
        \cup [kind : {"nodata", "datanull", "nonjson", "neterr"}, vulns : {<<>>}]

CatalogRaises(a) == a.kind \in {"nonjson", "neterr"}

CatalogPayload(d) == Payload("graphql", d, NoHash, NoTag)

(* args.catalog_url is None, tested inside the loop body.                  *)
UrlMissing(url) == ~url

(* One iteration of the loop over the dependencies.                        *)
CatalogIteration ==
    /\ cmd = "sec_catalog"
    /\ pc = "loop"
    /\ i <= Len(deps)
    /\ IF UrlMissing(catalog_url)
       THEN /\ pc' = "raised"
            /\ exc' = "ConanException"
            /\ UNCHANGED <<sent, result, advanced, i>>
       ELSE \E a \in CatalogAnswers :
            /\ sent' = Append(sent, Request("catalog", CatalogPayload(deps[i]), a, i))
            /\ IF CatalogRaises(a)
               THEN /\ pc' = "raised"
                    /\ exc' = OsvError(a)
                    /\ UNCHANGED <<result, advanced, i>>
               ELSE /\ exc' = exc
                    /\ result' = Append(result, [ref |-> deps[i], body |-> a.kind, vulns |-> a.vulns])
                    /\ advanced' = advanced + 1
                    /\ i' = i + 1
                    /\ pc' = "loop"
    /\ UNCHANGED <<cmd, deps, token, gh_token, catalog_url, args, refs, console, out, reads, fs>>

CatalogReturn ==
    /\ cmd = "sec_catalog"
    /\ pc = "loop"
    /\ i > Len(deps)
    /\ pc' = "returned"
    /\ UNCHANGED <<cmd, deps, token, gh_token, catalog_url, args, refs, exc, i, sent, result, advanced, console, out, reads, fs>>

(* The reports the renderer skips with "continue".                         *)
CatalogSkipped(r) == r.body = "nodata"

(* "packageVersion" not in None raises TypeError.                          *)
CatalogRenderRaises(l) == \E k \in 1..Len(l) : l[k].body = "datanull"

(* The else branch: a section with one "no vulnerabilities found" row.     *)
CatalogCleanRows(r) ==
    <<Row("section", r.ref, 0), Row("clean", r.ref, 0), Row("section", r.ref, 0)>>

(* The table rows; total is total_vulnerabilities before the report.       *)
RECURSIVE CatalogTable(_, _)
CatalogTable(l, total) ==
    IF l = <<>> THEN <<>>
    ELSE LET r == Head(l)
             total_vulnerabilities == total + Len(r.vulns)
         IN  IF CatalogSkipped(r) THEN CatalogTable(Tail(l), total)
             ELSE (IF r.vulns # <<>>
                   THEN <<Row("section", r.ref, 0),
                          Row("header", r.ref, total_vulnerabilities),
                          Row("section", r.ref, 0)>>
                            \o FindingRows(r.ref, SortIds(r.vulns))
                   ELSE CatalogCleanRows(r))
                  \o CatalogTable(Tail(l), total_vulnerabilities)

(* security/cmd_catalog.py display_vulnerabilities(list_of_data_json)      *)
display_vulnerabilities_sec_catalog(l) ==
    [table   |-> CatalogTable(l, 0),
     summary |-> <<>>,
     total   |-> SumFindings(l),
     printed |-> <<"table", "total">>]

(* The text formatter applied to the returned list.                        *)
CatalogRender ==
    /\ cmd = "sec_catalog"
    /\ pc = "returned"
    /\ IF CatalogRenderRaises(result)
       THEN pc' = "raised" /\ exc' = "TypeError" /\ out' = out
       ELSE pc' = "rendered" /\ exc' = exc /\ out' = display_vulnerabilities_sec_catalog(result)
    /\ UNCHANGED <<cmd, deps, token, gh_token, catalog_url, args, refs, i, sent, result, advanced, console, reads, fs>>

InitSecCatalog ==
    /\ cmd = "sec_catalog"
    /\ deps \in SeqsUpTo(Deps, MaxDeps)
    /\ token = FALSE
    /\ gh_token = FALSE
    /\ catalog_url \in BOOLEAN
    /\ args = NoArgs
    /\ refs = <<>>
    /\ pc = "loop"
    /\ exc = NoExc
    /\ i = 1
    /\ sent = <<>>
    /\ result = <<>>
    /\ advanced = 0
    /\ console = <<>>
    /\ out = NoOut
    /\ reads = <<>>
    /\ fs = NoFs

NextSecCatalog == CatalogIteration \/ CatalogReturn \/ CatalogRender

SpecSecCatalog == InitSecCatalog /\ [][NextSecCatalog]_vars

----------------------------------------------------------------------------
(* audit/cmd_catalog.py: get_custom_vulnerabilities(refs, token, url)      *)

(* generate_graphql_custom_query(refs) returns {} whatever the refs are.   *)
generate_graphql_custom_query(rs) == NoPayload

(* convert_custom_response(response) returns {"data": {}}.                 *)
convert_custom_response(a) == <<>>

(* One POST for the whole list; its answer is not looked at.               *)
get_custom_vulnerabilities ==
    /\ cmd = "custom"
    /\ pc = "call"
    /\ \E a \in {"answered", "neterr"} :
        /\ sent' = Append(sent, Request("custom", generate_graphql_custom_query(refs), PlainAnswer(a), 0))
        /\ IF a = "neterr"
           THEN pc' = "raised" /\ exc' = "ConnectionError" /\ result' = result
           ELSE pc' = "returned" /\ exc' = exc /\ result' = convert_custom_response(a)
    /\ UNCHANGED <<cmd, deps, token, gh_token, catalog_url, args, refs, i, advanced, console, out, reads, fs>>

InitCustom ==
    /\ cmd = "custom"
    /\ deps = <<>>
    /\ token \in BOOLEAN
    /\ gh_token = FALSE
    /\ catalog_url = TRUE
    /\ args = NoArgs
    /\ refs \in SeqsUpTo(ProxyRefs, MaxRefs)
    /\ pc = "call"
    /\ exc = NoExc
    /\ i = 1
    /\ sent = <<>>
    /\ result = <<>>
    /\ advanced = 0
    /\ console = <<>>
    /\ out = NoOut
    /\ reads = <<>>
    /\ fs = NoFs

NextCustom == get_custom_vulnerabilities \/ ProxyRender

SpecCustom == InitCustom /\ [][NextCustom]_vars

----------------------------------------------------------------------------
(* audit/cmd_catalog.py: the catalog command.  deps is the list the        *)
(* references are taken from: args.requires, graph.nodes[1:] or the        *)
(* direct dependencies, according to the arguments.                        *)

(* Every order list(set(...)) can give: each distinct element once.        *)
SetOrders(S) == {o \in [1..Cardinality(S) -> S] : Range(o) = S}

(* Positional parameters the two query functions declare, and the number   *)
(* of positional arguments the catalog command passes to them.             *)
ProxyParams == 2
ProxyArgsPassed == 3
CustomParams == 3
CustomArgsPassed == 4

(* A call with the wrong number of positional arguments raises TypeError.  *)
CallRaises(passed, params) == passed # params

DispatchRaises ==
    IF catalog_url
    THEN CallRaises(CustomArgsPassed, CustomParams)
    ELSE CallRaises(ProxyArgsPassed, ProxyParams)

(* The catalog command from reference selection to the query call.         *)
catalog ==
    /\ cmd = "audit_catalog"
    /\ pc = "start"
    /\ IF ~args.transitive /\ ~args.path
       THEN /\ refs' = [k \in 1..Len(deps) |-> RefString(deps[k])]
            /\ pc' = IF DispatchRaises THEN "raised" ELSE "call"
            /\ exc' = IF DispatchRaises THEN "TypeError" ELSE exc
            /\ result' = result
       ELSE IF args.graph_error
       THEN /\ refs' = refs
            /\ pc' = "returned"
            /\ exc' = exc
            /\ result' = <<[key |-> "error", vulns |-> <<>>]>>
       ELSE /\ refs' \in SetOrders({RefString(d) : d \in Range(deps)})
            /\ pc' = IF DispatchRaises THEN "raised" ELSE "call"
            /\ exc' = IF DispatchRaises THEN "TypeError" ELSE exc
            /\ result' = result
    /\ UNCHANGED <<cmd, deps, token, gh_token, catalog_url, args, i, sent, advanced, console, out, reads, fs>>

(* The text formatter applied to {"error": ...}: no "data" member.         *)
AuditCatalogRender ==
    /\ cmd = "audit_catalog"
    /\ pc = "returned"
    /\ out' = display_vulnerabilities_audit_catalog([has_data |-> FALSE, data |-> <<>>])
    /\ pc' = "rendered"
    /\ UNCHANGED <<cmd, deps, token, gh_token, catalog_url, args, refs, exc, i, sent, result, advanced, console, reads, fs>>

InitAuditCatalog ==
    /\ cmd = "audit_catalog"
    /\ deps \in SeqsUpTo(Deps, MaxDeps)
    /\ token \in BOOLEAN
    /\ gh_token = FALSE
    /\ catalog_url \in BOOLEAN
    /\ args \in [path : BOOLEAN, transitive : BOOLEAN, graph_error : BOOLEAN, use_commit : {"None"}]
    /\ args.path \/ deps # <<>>    \* without a path, --requires names a reference
    /\ refs = <<>>
    /\ pc = "start"
    /\ exc = NoExc
    /\ i = 1
    /\ sent = <<>>
    /\ result = <<>>
    /\ advanced = 0
    /\ console = <<>>
    /\ out = NoOut
    /\ reads = <<>>
    /\ fs = NoFs

NextAuditCatalog == catalog \/ AuditCatalogRender

SpecAuditCatalog == InitAuditCatalog /\ [][NextAuditCatalog]_vars

----------------------------------------------------------------------------
(* security/cmd_osv.py: the single-package osv command; and               *)
(* security/cmd_audit.py: get_osv_payload, get_commit_hash, extract_tag.   *)

(* --use-commit: absent (None), given without value ("autodetect"), or     *)
(* given with a commit hash.                                               *)
UseCommits == {"None", "autodetect", "sha_user"}

(* security/cmd_osv.py and security/cmd_audit.py extract_tag(url)          *)
extract_tag_sec(url) == RegexTag(url)

(* tag = extract_tag(url) or str(ref_to_audit.version)                     *)
TagOrVersion(url, d) == IF extract_tag_sec(url) # NoTag THEN extract_tag_sec(url) ELSE d.version

(* security/cmd_osv.py get_commit_hash: any exception becomes a            *)
(* ConanException; a lookup without a sha returns None.                    *)
get_commit_hash_sec(d, tag, ta, o1, o2) ==
    LET l == CommitLookup(d, tag, ta, o1, o2)
    IN  [reqs |-> l.reqs, exc |-> IF l.exc # NoExc THEN "ConanException" ELSE NoExc, hash |-> l.hash]

(* security/cmd_audit.py get_commit_hash: no handler, and the default      *)
(* argument subscripts ['sha'], which raises when the second answer has    *)
(* no sha.                                                                 *)
get_commit_hash_audit(d, tag, ta, o1, o2) ==
    LET l == CommitLookup(d, tag, ta, o1, o2)
    IN  IF l.exc = NoExc /\ o2 = "nosha"
        THEN [reqs |-> l.reqs, exc |-> "KeyError", hash |-> NoHash]
        ELSE l

(* The commit branch shared by the two get_osv_payload variants: read the  *)
(* manifest entry (["url"] raises when it is absent), take the tag, look   *)
(* the commit up and build {"commit": commit_hash}.                        *)
CommitBranch(d, m, c) ==
    LET rd == <<ManifestRead(m, IF m.file = "url" THEN TagOrVersion(m.url, d) ELSE NoTag)>>
    IN  IF m.file # "url"
        THEN [reqs |-> <<>>, exc |-> ManifestError(m), payload |-> NoPayload, reads |-> rd]
        ELSE IF TagOrVersion(m.url, d) = NoTag
        THEN [reqs |-> <<>>, exc |-> "Exception", payload |-> NoPayload, reads |-> rd]
        ELSE IF c.exc # NoExc
        THEN [reqs |-> c.reqs, exc |-> c.exc, payload |-> NoPayload, reads |-> rd]
        ELSE [reqs |-> c.reqs, exc |-> NoExc, payload |-> CommitPayload(c.hash), reads |-> rd]

(* "cci" in str(version) or use_commit == "autodetect"                     *)
SecByCommit(d, use_commit) == HasMarker(d.version) \/ use_commit = "autodetect"

(* security/cmd_osv.py get_osv_payload(conan_api, ref_to_audit, use_commit) *)
get_osv_payload_sec(d, use_commit, m, ta, o1, o2) ==
    IF SecByCommit(d, use_commit)
    THEN CommitBranch(d, m, get_commit_hash_sec(d, TagOrVersion(m.url, d), ta, o1, o2))
    ELSE IF use_commit # "None"
    THEN [reqs |-> <<>>, exc |-> NoExc, payload |-> CommitPayload(use_commit), reads |-> <<>>]
    ELSE [reqs |-> <<>>, exc |-> NoExc, payload |-> RegistryPayload(d), reads |-> <<>>]

(* security/cmd_audit.py get_osv_payload: use_commit is a flag there.      *)
get_osv_payload_audit(d, use_commit, m, ta, o1, o2) ==
    IF HasMarker(d.version) \/ use_commit # "None"
    THEN CommitBranch(d, m, get_commit_hash_audit(d, TagOrVersion(m.url, d), ta, o1, o2))
    ELSE [reqs |-> <<>>, exc |-> NoExc, payload |-> RegistryPayload(d), reads |-> <<>>]

(* The osv command of security/cmd_osv.py for the selected reference:      *)
(* payload, POST, get_patches_info (reads the manifest), response.json().  *)
osv ==
    /\ cmd = "sec_osv"
    /\ pc = "start"
    /\ \E m \in Manifests, ta \in TagAnswers, o1 \in ObjAnswers, o2 \in ObjAnswers :
        LET p == get_osv_payload_sec(deps[1], args.use_commit, m, ta, o1, o2)
        IN  /\ reads' = AtPos(p.reads, 1)
            /\ IF p.exc # NoExc
               THEN /\ sent' = AtPos(p.reqs, 1)
                    /\ pc' = "raised"
                    /\ exc' = p.exc
                    /\ result' = result
               ELSE \E r \in OsvAnswers :
                    /\ sent' = AtPos(p.reqs \o <<OsvRequest(p.payload, r)>>, 1)
                    /\ IF r.kind \in {"neterr", "nonjson"} \/ m.file = "missing"
                       THEN /\ pc' = "raised"
                            /\ exc' = IF r.kind = "neterr" THEN "ConnectionError"
                                       ELSE IF m.file = "missing" THEN "FileNotFoundError"
                                       ELSE "JSONDecodeError"
                            /\ result' = result
                       ELSE pc' = "returned" /\ exc' = exc /\ result' = <<OsvReport(deps[1], r)>>
    /\ UNCHANGED <<cmd, deps, token, gh_token, catalog_url, args, refs, i, advanced, console, out, fs>>

(* A direct call of security/cmd_audit.py get_osv_payload; the payload it  *)
(* returns is the result.                                                  *)
audit_get_osv_payload ==
    /\ cmd = "audit_payload"
    /\ pc = "start"
    /\ \E m \in Manifests, ta \in TagAnswers, o1 \in ObjAnswers, o2 \in ObjAnswers :
        LET p == get_osv_payload_audit(deps[1], args.use_commit, m, ta, o1, o2)
        IN  /\ reads' = AtPos(p.reads, 1)
            /\ sent' = AtPos(p.reqs, 1)
            /\ exc' = p.exc
            /\ IF p.exc # NoExc
               THEN pc' = "raised" /\ result' = result
               ELSE pc' = "returned" /\ result' = <<p.payload>>
    /\ UNCHANGED <<cmd, deps, token, gh_token, catalog_url, args, refs, i, advanced, console, out, fs>>

(* security/cmd_osv.py display_vulnerabilities(data_json): one row per     *)
(* finding in the order of the answer; the table is printed when the       *)
(* JSON object is non-empty, and the total is len(vulns).                  *)
display_vulnerabilities_sec_osv(r) ==
    [table   |-> FindingRows(r.ref, r.vulns),
     summary |-> <<>>,
     total   |-> Len(r.vulns),
     printed |-> (IF r.body # "empty" THEN <<"table">> ELSE <<"no_vulnerabilities">>)
                 \o <<"total">>]

(* The text formatter of security/cmd_osv.py applied to results[0].        *)
SecOsvRender ==
    /\ cmd = "sec_osv"
    /\ pc = "returned"
    /\ out' = display_vulnerabilities_sec_osv(result[1])
    /\ pc' = "rendered"
    /\ UNCHANGED <<cmd, deps, token, gh_token, catalog_url, args, refs, exc, i, sent, result, advanced, console, reads, fs>>

InitSingle ==
    /\ \/ cmd = "sec_osv" /\ args \in [path : {FALSE}, transitive : {FALSE}, graph_error : {FALSE}, use_commit : UseCommits]
       \/ cmd = "audit_payload" /\ args \in [path : {FALSE}, transitive : {FALSE}, graph_error : {FALSE}, use_commit : {"None", "autodetect"}]
    /\ deps \in [1..1 -> Deps]
    /\ token = FALSE
    /\ gh_token \in BOOLEAN
    /\ catalog_url = FALSE
    /\ refs = <<>>
    /\ pc = "start"
    /\ exc = NoExc
    /\ i = 1
    /\ sent = <<>>
    /\ result = <<>>
    /\ advanced = 0
    /\ console = <<>>
    /\ out = NoOut
    /\ reads = <<>>
    /\ fs = NoFs

NextSingle == osv \/ SecOsvRender \/ audit_get_osv_payload

SpecSingle == InitSingle /\ [][NextSingle]_vars

----------------------------------------------------------------------------
(* compliance/cmd_collect_licenses.py: collect_licenses.  deps is          *)
(* conanfile.dependencies in iteration order; fs.pkgs[k] is what the       *)
(* package of deps[k] has on disk; fs.dest is <cwd>/licenses; fs.sibling   *)
(* is the file whose name is cwd + "\licenses\licenses.txt" where the    *)
(* backslash is not a path separator.                                      *)

MaxLicenseDeps == 2

(* os.sep is "\" on Windows and "/" elsewhere.                            *)
Platforms == {"windows", "posix"}

(* d.package_folder is None | no licenses directory | its os.listdir.      *)
PkgStates ==
    {[folder |-> FALSE, isdir |-> FALSE, files |-> <<>>],
     [folder |-> TRUE,  isdir |-> FALSE, files |-> <<>>]}
        \cup [folder : {TRUE}, isdir : {TRUE},
              files : {<<>>, <<"LICENSE">>, <<"LICENSE", "COPYING">>}]

(* os.path.join(str(d.ref), f)                                             *)
LicensePath(d, f) == [ref |-> RefString(d), file |-> f]

(* What an earlier run left behind in <cwd>/licenses.                      *)
OldPath == [ref |-> <<"old", "/", "0">>, file |-> "LICENSE"]
OldDir == [exists |-> TRUE, files |-> {OldPath}, manifest |-> File(<<OldPath>>)]

(* Dependency lists: conanfile.dependencies has one entry per reference.   *)
LicenseDeps == {l \in SeqsUpTo(Deps, MaxLicenseDeps) : Cardinality(Range(l)) = Len(l)}

(* if os.path.exists(tmp_dir): rmdir(conanfile, tmp_dir)                   *)
LicensesStart ==
    /\ cmd = "licenses"
    /\ pc = "start"
    /\ fs' = IF fs.dest.exists THEN [fs EXCEPT !.dest = NoDir] ELSE fs
    /\ pc' = "loop"
    /\ UNCHANGED <<cmd, deps, token, gh_token, catalog_url, args, refs, exc, i, sent, result, advanced, console, out, reads>>

(* copy(conanfile, f, src, dst) for every f of os.listdir(search_dir):     *)
(* dst is created and f is copied into it.                                 *)
CopyAll(dir, d, files) ==
    IF files = <<>> THEN dir
    ELSE [dir EXCEPT !.exists = TRUE,
                     !.files = @ \cup {LicensePath(d, files[k]) : k \in 1..Len(files)}]

(* One iteration of the loop over conanfile.dependencies.items().          *)
LicensesIteration ==
    /\ cmd = "licenses"
    /\ pc = "loop"
    /\ i <= Len(deps)
    /\ LET d == deps[i]
           p == fs.pkgs[i]
       IN  IF ~p.folder \/ ~p.isdir
           THEN UNCHANGED <<fs, result>>
           ELSE /\ fs' = [fs EXCEPT !.dest = CopyAll(@, d, p.files)]
                /\ result' = result \o [k \in 1..Len(p.files) |-> LicensePath(d, p.files[k])]
    /\ i' = i + 1
    /\ UNCHANGED <<cmd, deps, token, gh_token, catalog_url, args, refs, pc, exc, sent, advanced, console, out, reads>>

(* if os.path.exists(tmp_dir): open(cwd + '\\licenses\\licenses.txt', 'w')  *)
(* and one line per collected file.  The name is inside tmp_dir only       *)
(* where the backslash separates path components.                          *)
LicensesManifest ==
    /\ cmd = "licenses"
    /\ pc = "loop"
    /\ i > Len(deps)
    /\ fs' = IF ~fs.dest.exists THEN fs
             ELSE IF fs.platform = "windows"
             THEN [fs EXCEPT !.dest.manifest = File(result)]
             ELSE [fs EXCEPT !.sibling = File(result)]
    /\ pc' = "returned"
    /\ UNCHANGED <<cmd, deps, token, gh_token, catalog_url, args, refs, exc, i, sent, result, advanced, console, out, reads>>

InitLicenses ==
    /\ cmd = "licenses"
    /\ deps \in LicenseDeps
    /\ fs \in [platform : Platforms,
                pkgs : [1..Len(deps) -> PkgStates],
                dest : {NoDir, OldDir},
                sibling : {NoFile, File(<<OldPath>>)}]
    /\ token = FALSE
    /\ gh_token = FALSE
    /\ catalog_url = FALSE
    /\ args = NoArgs
    /\ refs = <<>>
    /\ pc = "start"
    /\ exc = NoExc
    /\ i = 1
    /\ sent = <<>>
    /\ result = <<>>
    /\ advanced = 0
    /\ console = <<>>
    /\ out = NoOut
    /\ reads = <<>>

NextLicenses == LicensesStart \/ LicensesIteration \/ LicensesManifest

SpecLicenses == InitLicenses /\ [][NextLicenses]_vars

----------------------------------------------------------------------------
(* security/cmd_audit.py: validate_args and the audit command up to the    *)
(* graph it loads.  args holds, for each argument, whether it was given    *)
(* (is truthy).                                                            *)

AuditArgs ==
    [path : BOOLEAN, requires : BOOLEAN, tool_requires : BOOLEAN,
     name : BOOLEAN, version : BOOLEAN, user : BOOLEAN, channel : BOOLEAN]

(* Mutation: --channel without --user is let through.                      *)
validate_args_no_channel_check(a) ==
    IF a.requires /\ (a.name \/ a.version \/ a.user \/ a.channel) THEN "ConanException"
    ELSE IF ~a.path /\ ~a.requires /\ ~a.tool_requires THEN "ConanException"
    ELSE IF a.path /\ (a.requires \/ a.tool_requires) THEN "ConanException"
    ELSE NoExc

(* validate_args(args): the four tests in the order of the code; the       *)
(* value is the exception raised, "None" when the function returns.        *)
validate_args(a) ==
    IF a.requires /\ (a.name \/ a.version \/ a.user \/ a.channel) THEN "ConanException"
    ELSE IF a.channel /\ ~a.user THEN "ConanException"
    ELSE IF ~a.path /\ ~a.requires /\ ~a.tool_requires THEN "ConanException"
    ELSE IF a.path /\ (a.requires \/ a.tool_requires) THEN "ConanException"
    ELSE NoExc

(* audit: parse_args, then validate_args(args).                            *)
AuditValidate ==
    /\ cmd = "audit"
    /\ pc = "start"
    /\ exc' = validate_args(args)
    /\ pc' = IF validate_args(args) # NoExc THEN "raised" ELSE "validated"
    /\ UNCHANGED <<cmd, deps, token, gh_token, catalog_url, args, refs, i, sent, result, advanced, console, out, reads, fs>>

(* audit: load_graph_consumer when there is a path, load_graph_requires    *)
(* otherwise; the graph is returned with or without a graph error.         *)
AuditLoadGraph ==
    /\ cmd = "audit"
    /\ pc = "validated"
    /\ \E error \in BOOLEAN :
        result' = <<[graph |-> IF args.path THEN "consumer" ELSE "requires", error |-> error]>>
    /\ pc' = "returned"
    /\ UNCHANGED <<cmd, deps, token, gh_token, catalog_url, args, refs, exc, i, sent, advanced, console, out, reads, fs>>

InitAudit ==
    /\ cmd = "audit"
    /\ args \in AuditArgs
    /\ deps = <<>>
    /\ token = FALSE
    /\ gh_token = FALSE
    /\ catalog_url = FALSE
    /\ refs = <<>>
    /\ pc = "start"
    /\ exc = NoExc
    /\ i = 1
    /\ sent = <<>>
    /\ result = <<>>
    /\ advanced = 0
    /\ console = <<>>
    /\ out = NoOut
    /\ reads = <<>>
    /\ fs = NoFs

NextAudit == AuditValidate \/ AuditLoadGraph

SpecAudit == InitAudit /\ [][NextAudit]_vars

----------------------------------------------------------------------------
(* Any entry point.                                                        *)

Init ==
    \/ InitProxy \/ InitCustom \/ InitAuditCatalog \/ InitOsv \/ InitSecCatalog \/ InitSingle
    \/ InitLicenses \/ InitAudit

Next ==
    \/ NextProxy \/ NextCustom \/ NextAuditCatalog \/ NextOsv \/ NextSecCatalog \/ NextSingle
    \/ NextLicenses \/ NextAudit

Spec == Init /\ [][Next]_vars

----------------------------------------------------------------------------
(* Properties of the aggregation loops, the query functions and the text   *)
(* renderers.                                                              *)

(* The distinct elements of a list in the order of their first occurrence. *)
RECURSIVE FirstSeen(_)
FirstSeen(l) ==
    IF l = <<>> THEN <<>>
    ELSE <<Head(l)>> \o FirstSeen(SelectSeq(Tail(l), LAMBDA x : x # Head(l)))

LoopCmds == {"osv", "sec_catalog"}

(* C1: the result of an aggregation loop holds exactly one report per      *)
(* distinct (name, version) pair of its dependency list, in the order in   *)
(* which the pairs were first seen.                                        *)
C1_OneReportPerDistinctPair ==
    (cmd \in LoopCmds /\ pc = "returned") => RefsOf(result) = FirstSeen(deps)

(* The vulnerability queries sent for list position k.                     *)
QueriesFor(k) ==
    {n \in 1..Len(sent) : sent[n].to \in {"osv", "catalog", "proxy", "custom"} /\ sent[n].pos = k}

(* Positions whose query was answered with an error body.                  *)
FailedPositions ==
    {sent[n].pos : n \in {m \in 1..Len(sent) :
        /\ sent[m].to \in {"osv", "catalog"}
        /\ sent[m].answer.kind \in {"errbody", "nodata", "datanull"}}}

(* C4: a failed vulnerability query (network exception, non-JSON body,     *)
(* non-2xx status) never ends the loop, and on return every dependency     *)
(* has its report, the failed ones with the error and no findings.         *)
C4_QueryFailureDoesNotAbort ==
    cmd \in LoopCmds =>
        /\ ~(pc = "raised" /\ exc \in {"ConnectionError", "JSONDecodeError"})
        /\ pc = "returned" =>
              /\ Len(result) = Len(deps)
              /\ \A k \in FailedPositions :
                    /\ result[k].vulns = <<>>
                    /\ result[k].body \in {"errbody", "nodata", "datanull"}

(* C5: a failure while resolving a package's commit hash (manifest         *)
(* missing or without an entry, no tag, failed lookups) never ends the     *)
(* graph-wide osv loop.                                                    *)
C5_ResolutionFailureDoesNotAbort ==
    cmd = "osv" => ~(pc = "raised" /\ exc \in {"FileNotFoundError", "KeyError"})

(* C6: exactly one vulnerability query per audited package: never more     *)
(* than one query for a list position, one for every position the loop     *)
(* has completed, and one per reference when the custom query returns.     *)
C6_OneQueryPerPackage ==
    /\ cmd \in {"osv", "proxy"} =>
          \A k \in 1..Len(IF cmd = "osv" THEN deps ELSE refs) :
              /\ Cardinality(QueriesFor(k)) <= 1
              /\ (pc \in {"loop", "returned"} /\ k < i) => Cardinality(QueriesFor(k)) = 1
    /\ (cmd = "custom" /\ pc = "returned") =>
          \A k \in 1..Len(refs) : Cardinality(QueriesFor(k)) = 1

(* C7: without a catalog URL the catalog command never returns a normal    *)
(* result and sends no query, whatever the dependency list.                *)
C7_NoUrlAborts ==
    (cmd = "sec_catalog" /\ ~catalog_url) =>
        /\ pc \notin {"returned", "rendered"}
        /\ sent = <<>>

TableRefs == {out.table[k].ref : k \in 1..Len(out.table)}

(* C8: a report whose query failed is not listed in the "no                *)
(* vulnerabilities found" summary and is not left out of the output.       *)
C8_FailedRenderedDistinctly ==
    (cmd \in LoopCmds /\ pc = "rendered") =>
        \A k \in 1..Len(result) :
            result[k].body \in {"errbody", "nodata"} =>
                /\ result[k].ref \notin Range(out.summary)
                /\ result[k].ref \in TableRefs

(* C9: a report with an empty findings list is named in the summary and    *)
(* adds no row to the table, in every renderer of several packages.        *)
C9_CleanOnlyInSummary ==
    pc = "rendered" =>
        /\ \A k \in 1..Len(out.table) : out.table[k].kind # "clean"
        /\ cmd \in LoopCmds =>
              \A k \in 1..Len(result) :
                  (result[k].body \in {"vulns", "empty", "ok"} /\ result[k].vulns = <<>>)
                      => result[k].ref \in Range(out.summary)
        /\ cmd = "proxy" =>
              \A k \in 1..Len(result) :
                  result[k].vulns = <<>> => result[k].key \in Range(out.summary)

(* No mode is forced: the graph-wide osv command has no mode argument;     *)
(* the single-package commands are run without --use-commit.               *)
AutoMode ==
    \/ cmd = "osv"
    \/ cmd \in {"sec_osv", "audit_payload"} /\ args.use_commit = "None"

(* C10: in auto mode a package is queried by commit exactly when its       *)
(* version contains the marker, and by registry key otherwise.             *)
C10_AutoModeKey ==
    AutoMode =>
        /\ \A n \in 1..Len(sent) :
              sent[n].to = "osv" =>
                  /\ sent[n].payload.mode \in {"commit", "registry"}
                  /\ sent[n].payload.mode = "commit" <=> HasMarker(deps[sent[n].pos].version)
        /\ (cmd = "audit_payload" /\ pc = "returned") =>
              (result[1].mode = "commit" <=> HasMarker(deps[1].version))

----------------------------------------------------------------------------
(* Properties of payload construction and commit resolution.               *)

(* C11: with --use-commit <hash> the only request of the single-package    *)
(* osv command is the query {"commit": <hash>} with exactly that hash,     *)
(* for every reference: the manifest is not read for a tag and no GitHub   *)
(* lookup is sent.                                                         *)
C11_ExplicitHashSentAsIs ==
    (cmd = "sec_osv" /\ args.use_commit = "sha_user") =>
        /\ reads = <<>>
        /\ exc \notin {"ConanException", "Exception", "KeyError"}
        /\ \A n \in 1..Len(sent) :
              /\ sent[n].to = "osv"
              /\ sent[n].payload = CommitPayload("sha_user")

(* C12: whenever a payload is built from a manifest entry with a download  *)
(* URL, the tag the code goes on with is the version string embedded in    *)
(* the URL when the URL has one of the three recognized shapes, whatever   *)
(* its host, and the literal package version otherwise.                    *)
C12_TagExtractionTotal ==
    \A n \in 1..Len(reads) :
        reads[n].manifest.file = "url" =>
            reads[n].tag = IF reads[n].manifest.url.shape \in {"download", "archive", "tags"}
                           THEN reads[n].manifest.url.tag
                           ELSE deps[reads[n].pos].version

(* C13: a query by commit always carries a resolved hash: no request to    *)
(* the vulnerability source and no returned payload has the commit key     *)
(* with an absent (None) hash.                                             *)
C13_CommitQueryOnlyWithHash ==
    /\ \A n \in 1..Len(sent) :
          (sent[n].to = "osv" /\ sent[n].payload.mode = "commit")
              => sent[n].payload.commit # NoHash
    /\ (cmd = "audit_payload" /\ pc = "returned" /\ result[1].mode = "commit")
          => result[1].commit # NoHash

(* C14: without GH_TOKEN in the environment no command sends a request to  *)
(* the tag-lookup (or object-lookup) endpoint.                             *)
C14_NoLookupWithoutToken ==
    ~gh_token => \A n \in 1..Len(sent) : sent[n].to \notin {"github_tag", "github_obj"}

(* Requests to the vulnerability source that got no usable answer: a       *)
(* non-2xx status, a body that is not JSON, or no answer at all.           *)
FailedQueries ==
    {n \in 1..Len(sent) :
        sent[n].to = "osv" /\ sent[n].answer.kind \in {"errbody", "nonjson", "neterr"}}

(* C15: for the public database, an answer with a non-2xx status or a      *)
(* malformed body is never returned (and so never rendered) as a report    *)
(* of the package, and no further query is sent for that package.          *)
C15_ErrorAnswerIsErrorResult ==
    cmd \in {"osv", "sec_osv"} =>
        /\ pc \in {"returned", "rendered"} =>
              \A k \in 1..Len(result) : result[k].body \notin {"errbody", "nonjson"}
        /\ \A n \in FailedQueries :
              \A m \in (n + 1)..Len(sent) :
                  ~(sent[m].to = "osv" /\ sent[m].pos = sent[n].pos)

(* C16: in the printed table the findings of a package appear in           *)
(* ascending order of their identifier, in every text renderer.            *)
C16_FindingsAscending ==
    pc = "rendered" =>
        \A k \in 1..(Len(out.table) - 1) :
            (out.table[k].kind = "finding" /\ out.table[k + 1].kind = "finding")
                => out.table[k].n <= out.table[k + 1].n

(* List positions with a vulnerability query that did not complete: it    *)
(* was rate-limited, got another non-2xx status or an unusable body.       *)
NotCompleted ==
    {sent[n].pos : n \in {m \in 1..Len(sent) :
        /\ sent[m].to \in {"proxy", "osv", "catalog"}
        /\ sent[m].answer.kind \notin {"ok", "vulns", "empty"}}}

(* C17: at every point of a batch the number of progress advancements      *)
(* equals the number of packages processed so far whose query completed;   *)
(* a rate-limited or failed package adds none.                             *)
C17_ProgressPerCompletedPackage ==
    cmd \in {"proxy", "osv", "sec_catalog"} =>
        advanced = Cardinality((1..(i - 1)) \ NotCompleted)

(* C18: the catalog command hands the references of the selected scope to  *)
(* the proxy or custom-URL query function and returns that function's      *)
(* result: once the references are selected they are exactly those of the  *)
(* scope, and the command does not end in an exception of its own.         *)
C18_CatalogQueriesScope ==
    cmd = "audit_catalog" =>
        /\ (pc # "start" /\ ~(args.graph_error /\ (args.transitive \/ args.path)))
              => Range(refs) = {RefString(d) : d \in Range(deps)}
        /\ ~(pc = "raised" /\ exc = "TypeError")

(* The lines collect-licenses has to list: one per file of the licenses    *)
(* directory of every dependency that has a package folder and such a      *)
(* directory, in iteration order.                                          *)
RECURSIVE CollectedUpTo(_)
CollectedUpTo(k) ==
    IF k = 0 THEN <<>>
    ELSE CollectedUpTo(k - 1)
         \o (IF fs.pkgs[k].folder /\ fs.pkgs[k].isdir
             THEN [n \in 1..Len(fs.pkgs[k].files) |-> LicensePath(deps[k], fs.pkgs[k].files[n])]
             ELSE <<>>)

(* C19: when collect-licenses has finished, <cwd>/licenses holds exactly    *)
(* the license files copied in this run and its licenses.txt lists         *)
(* exactly them, one line each, with nothing left over from an earlier     *)
(* directory.  (With nothing to collect there is no directory.)            *)
C19_ManifestListsCollected ==
    (cmd = "licenses" /\ pc = "returned") =>
        LET expected == CollectedUpTo(Len(deps))
        IN  /\ fs.dest.files = Range(expected)
            /\ fs.dest.manifest.lines = expected
            /\ expected # <<>> => fs.dest.manifest.exists

(* The requests of one commit resolution: those sent to an endpoint for    *)
(* one list position.                                                      *)
LookupsOf(to, pos) == {n \in 1..Len(sent) : sent[n].to = to /\ sent[n].pos = pos}

(* C20: a commit resolution sends the tag lookup first and the object      *)
(* lookup after it, and sends the object lookup at most once.              *)
C20_LookupOrderAndCount ==
    \A n \in 1..Len(sent) :
        sent[n].to = "github_obj" =>
            /\ \E m \in 1..(n - 1) : sent[m].to = "github_tag" /\ sent[m].pos = sent[n].pos
            /\ Cardinality(LookupsOf("github_obj", sent[n].pos)) <= 1

(* Positions whose request was answered 200 with data.                     *)
AnsweredOk == {j \in 1..Len(sent) : sent[j].to = "proxy" /\ sent[j].answer.kind = "ok"}

(* C21: with a token, get_proxy_vulnerabilities returns only after every   *)
(* reference of the list was requested exactly once, in list order, also   *)
(* when some were answered 429; the returned data holds one entry per      *)
(* reference answered 200, with the data of its latest such answer, and    *)
(* no entry for a reference that was only rate-limited.                    *)
C21_TokenContinuesAfter429 ==
    (cmd = "proxy" /\ token /\ pc \in {"returned", "rendered"}) =>
        /\ Len(sent) = Len(refs)
        /\ \A k \in 1..Len(sent) : sent[k].pos = k /\ sent[k].payload.dep = refs[k]
        /\ Keys(result) = {refs[j] : j \in AnsweredOk}
        /\ Len(result) = Cardinality(Keys(result))
        /\ \A n \in 1..Len(result) :
               \E j \in AnsweredOk :
                   /\ refs[j] = result[n].key
                   /\ sent[j].answer.vulns = result[n].vulns
                   /\ \A m \in AnsweredOk : refs[m] = refs[j] => m <= j

C21_Witness ==
    /\ cmd = "proxy" /\ token /\ pc = "returned"
    /\ Len(refs) >= 3
    /\ Len(sent) = Len(refs)
    /\ RateLimitedAt = {2}
    /\ refs[2] \notin Keys(result)
    /\ AnsweredOk = {1, 3}

(* The header rows of the printed table and the reports that have          *)
(* findings, both in order.                                                *)
HeaderRows == SelectSeq(out.table, LAMBDA r : r.kind = "header")
WithFindings == SelectSeq(result, LAMBDA r : r.vulns # <<>>)

(* C22: in the catalog text renderers the header row of each package with  *)
(* findings shows the number of findings of that package alone, and the    *)
(* printed total is the sum of the per-package numbers.                    *)
C22_HeaderCountPerPackage ==
    (cmd \in {"sec_catalog", "proxy"} /\ pc = "rendered") =>
        /\ Len(HeaderRows) = Len(WithFindings)
        /\ \A k \in 1..Len(HeaderRows) : HeaderRows[k].n = Len(WithFindings[k].vulns)
        /\ out.total = SumFindings(WithFindings)

(* The argument sets the audit command is meant to take.                   *)
Acceptable(a) ==
    /\ a.path \/ a.requires \/ a.tool_requires
    /\ ~(a.path /\ (a.requires \/ a.tool_requires))
    /\ ~(a.requires /\ (a.name \/ a.version \/ a.user \/ a.channel))
    /\ a.channel => a.user

(* C23: validate_args lets the audit command go on exactly for the         *)
(* acceptable argument sets; for every other set it raises and no graph    *)
(* is loaded.                                                              *)
C23_ValidateArgsExact ==
    cmd = "audit" =>
        /\ pc \in {"validated", "returned"} => (Acceptable(args) /\ exc = NoExc)
        /\ pc = "raised" => (~Acceptable(args) /\ exc = "ConanException")
        /\ result # <<>> => Acceptable(args)
        /\ ~Acceptable(args) => result = <<>>

C23_Witness ==
    /\ cmd = "audit" /\ pc = "raised" /\ result = <<>>
    /\ args.path /\ ~args.requires /\ ~args.tool_requires
    /\ args.channel /\ ~args.user

====
